---- MODULE Spec2Model ----
(***************************************************************************)
(* write_file of raio (src/src/main.rs): one benchmark run that writes     *)
(* `count` blocks of `block_size` bytes under one of six strategies.       *)
(* The program is a single thread; the only concurrent actors are the      *)
(* kernel, which retires the writes submitted to the io_uring ring, and    *)
(* the monoio executor, which polls spawned tasks while the main future    *)
(* is suspended at an await.                                               *)
(***************************************************************************)
EXTENDS Integers, Sequences, FiniteSets

\* ---------------------------------------------------------------- bounds
\* Largest count tried with the seq / io_uring* strategies. 9 is the first
\* count at which io_uring8 submits a second batch while the first is in flight.
MaxCount == 9
\* Largest count tried with the task strategies (async, async2).
MaxTasks == 3

\* block_size values tried: multiples of 64 (one and two stamped chunks).
BlockSizes == {64, 128}

\* ------------------------------------------------------ program constants
\* IoUring::new(8)
RingEntries == 8
\* .user_data(0x42)
Tag42 == 66
\* Variant: the steady-state loop starts one block late.
SteadyStart_Late == 7 + 1
\* for i in 7..count
SteadyStart == 7

Strategies == {"seq", "async", "async2", "io_uring", "io_uring2", "io_uring8"}
RingStrategies == {"io_uring", "io_uring2", "io_uring8"}
TaskStrategies == {"async", "async2"}

\* Value of a local that holds no buffer / task yet.
Null == 0 - 1

VARIABLES
  strategy,    \* Strategy argument of write_file
  block_size,  \* block_size argument
  count,       \* count argument
  pc,          \* position of the main future in write_file
  i,           \* loop variable of the current for loop
  written,     \* let mut written = 0
  report,      \* <<>> until the println! of the result, then <<[written, total]>>
  nalloc,      \* number of mem_aligned allocations made; the next buffer's identity
  freeLog,     \* buffers passed to mem_aligned_free, in call order
  buf,         \* io_uring: buf; io_uring8: buf of the loop body / of while let Some(buf)
  current,     \* io_uring2: current buffer; async2: current join handle
  next,        \* io_uring2: next buffer; async2: next join handle
  queue,       \* io_uring8: VecDeque of buffers
  sq,          \* ring submission queue: entries pushed and not yet submitted
  inflight,    \* writes the kernel holds: submitted, not yet retired
  cq,          \* ring completion queue: completions posted and not yet reaped
  nbatch,      \* number of io_uring_enter submissions that consumed entries
  handles,     \* async: Vec of join handles
  tasks,       \* spawned tasks: id -> [st, res]
  subLog,      \* history: block indices pushed to the ring or handed to a write, in order
  reapLog,     \* history: the writes (buffer identities) whose completion was reaped, in order
  negReaped,   \* history: a completion with result < 0 has been reaped
  waits,       \* history: number of submit_and_wait calls / awaits on a write
  allFull,     \* history: every write finished so far wrote block_size bytes
  genLog,      \* history: the block generator calls made: [blk, idx, aligned]
  genCall,     \* generator replay: the call being replayed, [blk, idx, aligned]
  outA,        \* generator replay: the buffer the first call produced
  outB         \* generator replay: the buffer the second, identical call produced

vars == <<strategy, block_size, count, pc, i, written, report, nalloc, freeLog,
          buf, current, next, queue, sq, inflight, cq, nbatch, handles, tasks,
          subLog, reapLog, negReaped, waits, allFull, genLog, genCall, outA, outB>>

argVars == <<strategy, block_size, count>>
heapVars == <<nalloc, freeLog>>
localVars == <<buf, current, next, queue>>
ringVars == <<sq, inflight, cq, nbatch>>
taskVars == <<handles, tasks>>
histVars == <<subLog, reapLog, negReaped, waits, allFull, genLog>>
genVars == <<genCall, outA, outB>>

Min(a, b) == IF a < b THEN a ELSE b

\* The set of elements of a sequence.
Range(s) == {s[k] : k \in 1..Len(s)}

\* ------------------------------------------------------------------ ring
\* opcode::Write::new(fd, buf, block_size).build()[.flags(IO_LINK)].user_data(tag)
Sqe(tag, b, link) == [user_data |-> tag, buf |-> b, link |-> link]

\* ring.submission().push(&write_e) returns Err when the queue already holds
\* RingEntries unsubmitted entries; .expect("submission queue is full") panics.
SqFull == Len(sq) >= RingEntries

\* io_uring_enter consumes the whole submission queue as one batch. Entry k of
\* the batch is linked behind entry k-1 when entry k-1 carries IO_LINK; a link
\* chain never extends past the batch it was submitted in.
SubmitBatch ==
  IF sq = <<>>
    THEN UNCHANGED <<inflight, nbatch>>
    ELSE /\ nbatch' = nbatch + 1
         /\ inflight' = inflight \cup
              {[user_data |-> sq[k].user_data, buf |-> sq[k].buf, link |-> sq[k].link,
                batch |-> nbatch, pos |-> k, cancel |-> FALSE] : k \in 1..Len(sq)}

\* A submitted write may start (and so retire) unless it is linked behind a
\* write of its batch that has not retired yet.
Ready(e) ==
  ~ \E p \in inflight : p.batch = e.batch /\ p.pos = e.pos - 1 /\ p.link

\* Result codes a write of len bytes can retire with: an error (-EIO), a short
\* write, or len. A write whose chain predecessor failed is cancelled (-ECANCELED).
Outcomes(e, len) == IF e.cancel THEN {0 - 125} ELSE {0 - 5, len \div 2, len}

\* The kernel retires one submitted write and posts its completion. A linked
\* write that does not complete in full severs the chain: its successor is
\* cancelled.
KernelComplete ==
  /\ \E e \in inflight : \E r \in Outcomes(e, block_size) :
       /\ Ready(e)
       /\ cq' = Append(cq, [user_data |-> e.user_data, result |-> r, buf |-> e.buf])
       /\ inflight' =
            {IF p.batch = e.batch /\ p.pos = e.pos + 1 /\ e.link /\ r < block_size
               THEN [p EXCEPT !.cancel = TRUE] ELSE p : p \in inflight \ {e}}
       /\ allFull' = (allFull /\ r = block_size)
  /\ UNCHANGED <<argVars, genVars, pc, i, written, report, nalloc, freeLog,
                 buf, current, next, queue, sq, nbatch, taskVars, subLog,
                 reapLog, negReaped, waits, genLog>>

\* The write closures / the push of the io_uring arm: push one entry for block
\* idx; the expect panics when the submission queue is full.
Push(e, idx, okPc) ==
  IF SqFull
    THEN /\ pc' = "panic_full"
         /\ UNCHANGED <<sq, subLog>>
    ELSE /\ sq' = Append(sq, e)
         /\ subLog' = Append(subLog, idx)
         /\ pc' = okPc

\* Variant: the wait blocks for a completion without submitting the queue.
Submit_Forgotten(okPc) ==
  /\ UNCHANGED <<sq, inflight, nbatch>>
  /\ waits' = waits + 1
  /\ pc' = okPc

\* ring.submit_and_wait(1), first half: hand the submission queue to the kernel.
\* The call then blocks until a completion is available (the guard of Reap).
Submit(okPc) ==
  /\ SubmitBatch
  /\ sq' = <<>>
  /\ waits' = waits + 1
  /\ pc' = okPc

\* Variant: io_uring2's wait closure without the result assertion.
ResultAsserted_OnlyW1 == strategy = "io_uring"

\* Variant: io_uring8's wait closure with the result assertion left in.
ResultAsserted_All == strategy \in RingStrategies

\* assert_eq!(cqe.user_data(), 0x42): present in the io_uring and io_uring2 arms,
\* commented out in io_uring8's wait closure.
TagAsserted == strategy \in {"io_uring", "io_uring2"}

\* assert!(cqe.result() >= 0, ...): present in the io_uring and io_uring2 arms,
\* commented out in io_uring8's wait closure, which only prints the result.
ResultAsserted == strategy \in {"io_uring", "io_uring2"}

\* ring.submit_and_wait(1) returning, then ring.completion().next(): take the
\* oldest posted completion and run the arm's assertions on it.
Reap(okPc) ==
  /\ cq # <<>>
  /\ LET cqe == Head(cq) IN
       /\ cq' = Tail(cq)
       /\ reapLog' = Append(reapLog, cqe.buf)
       /\ negReaped' = (negReaped \/ cqe.result < 0)
       /\ pc' = IF \/ TagAsserted /\ cqe.user_data # Tag42
                   \/ ResultAsserted /\ cqe.result < 0
                  THEN "panic_assert" ELSE okPc

\* --------------------------------------------------------- block generator
\* Byte k (from 0, least significant first) of u64::to_le_bytes(v).
RECURSIVE LeByte(_, _)
LeByte(v, k) == IF k = 0 THEN v % 256 ELSE LeByte(v \div 256, k - 1)

\* Byte at offset o (from 0) of a generated block: chunk o / 64 has the 8 bytes
\* of idx + chunk number copied to its start; every other byte keeps what the
\* memory held before (old[o]).
StampedByte(idx, old, o) ==
  IF (o % 64) < 8 THEN LeByte(idx + (o \div 64), o % 64) ELSE old[o]

\* make_block(block_size, idx): vec![0u8; block_size], then the stamps.
make_block(bs, idx) ==
  [o \in 0..(bs - 1) |-> StampedByte(idx, [p \in 0..(bs - 1) |-> 0], o)]

\* make_block_mem_aligned(block_size, idx): memory from std::alloc::alloc, which
\* is not initialised and holds `old`, then the stamps.
make_block_mem_aligned(bs, idx, old) ==
  [o \in 0..(bs - 1) |-> StampedByte(idx, old, o)]

\* Contents std::alloc::alloc may hand out for bs bytes: whatever the memory held
\* before. Two patterns are tried: zeroes, and a previously used 0xA5 fill.
OldMemory(bs) == {[p \in 0..(bs - 1) |-> 0], [p \in 0..(bs - 1) |-> 165]}

\* Variant of the idx argument: the block number, not scaled to chunks.
BlockIdx_Unscaled(n) == n

\* The idx argument at the call sites: i * block_size / 64.
BlockIdx(n) == (n * block_size) \div 64

\* The generator call for block n with argument idx, by make_block_mem_aligned
\* (ring arms) or make_block (seq and task arms).
GenCall(n, idx) == [blk |-> n, idx |-> idx, aligned |-> strategy \in RingStrategies]

\* make_block_mem_aligned(block_size, idx)?: a fresh aligned buffer.
NewBuf == nalloc

\* mem_aligned_free(b, block_size, 4096)
Free(b) == freeLog' = Append(freeLog, b)

\* -------------------------------------------------- Strategy::IOUring arm
\* for i in 0..count
U1_Loop ==
  /\ pc = "u1_loop"
  /\ pc' = IF i < count THEN "u1_alloc" ELSE "report"
  /\ UNCHANGED <<argVars, genVars, i, written, report, heapVars, localVars,
                 ringVars, taskVars, histVars>>

U1_Alloc ==
  /\ pc = "u1_alloc"
  /\ buf' = NewBuf
  /\ nalloc' = nalloc + 1
  /\ pc' = "u1_push"
  /\ genLog' = genLog \cup {GenCall(i, BlockIdx(i))}
  /\ UNCHANGED <<argVars, genVars, i, written, report, freeLog, current, next,
                 queue, ringVars, taskVars, subLog, reapLog, negReaped, waits, allFull>>

U1_Push ==
  /\ pc = "u1_push"
  /\ Push(Sqe(Tag42, buf, FALSE), i, "u1_submit")
  /\ UNCHANGED <<argVars, genVars, i, written, report, heapVars, localVars,
                 inflight, cq, nbatch, taskVars, reapLog, negReaped, waits,
                 allFull, genLog>>

U1_Submit ==
  /\ pc = "u1_submit"
  /\ Submit("u1_reap")
  /\ UNCHANGED <<argVars, genVars, i, written, report, heapVars, localVars, cq,
                 taskVars, subLog, reapLog, negReaped, allFull, genLog>>

U1_Reap ==
  /\ pc = "u1_reap"
  /\ Reap("u1_free")
  /\ UNCHANGED <<argVars, genVars, i, written, report, heapVars, localVars, sq,
                 inflight, nbatch, taskVars, subLog, waits, allFull, genLog>>

U1_Free ==
  /\ pc = "u1_free"
  /\ Free(buf)
  /\ i' = i + 1
  /\ pc' = "u1_loop"
  /\ UNCHANGED <<argVars, genVars, written, report, nalloc, localVars,
                 ringVars, taskVars, histVars>>

\* Variant: the arm without its `if count > 0`.
U2_Guard_Always == TRUE

\* ------------------------------------------------- Strategy::IOUring2 arm
\* if count > 0
U2_Guard == count > 0

U2_Start ==
  /\ pc = "u2_start"
  /\ pc' = IF U2_Guard THEN "u2_alloc0" ELSE "report"
  /\ UNCHANGED <<argVars, genVars, i, written, report, heapVars, localVars,
                 ringVars, taskVars, histVars>>

\* let mut current = make_block_mem_aligned(block_size, 0)?
U2_AllocCurrent ==
  /\ pc = "u2_alloc0"
  /\ current' = NewBuf
  /\ nalloc' = nalloc + 1
  /\ pc' = "u2_push0"
  /\ genLog' = genLog \cup {GenCall(0, 0)}
  /\ UNCHANGED <<argVars, genVars, i, written, report, freeLog, buf, next,
                 queue, ringVars, taskVars, subLog, reapLog, negReaped, waits, allFull>>

\* write(&mut ring, current)?; the for loop then starts at 1
U2_PushCurrent ==
  /\ pc = "u2_push0"
  /\ Push(Sqe(Tag42, current, FALSE), 0, "u2_loop")
  /\ i' = 1
  /\ UNCHANGED <<argVars, genVars, written, report, heapVars, localVars,
                 inflight, cq, nbatch, taskVars, reapLog, negReaped, waits,
                 allFull, genLog>>

\* Variant: the loop exits straight to the report, without the final wait.
U2_Loop_NoFinalWait ==
  /\ pc = "u2_loop"
  /\ pc' = IF i < count THEN "u2_alloc" ELSE "report"
  /\ UNCHANGED <<argVars, genVars, i, written, report, heapVars, localVars,
                 ringVars, taskVars, histVars>>

\* for i in 1..count
U2_Loop ==
  /\ pc = "u2_loop"
  /\ pc' = IF i < count THEN "u2_alloc" ELSE "u2_lsubmit"
  /\ UNCHANGED <<argVars, genVars, i, written, report, heapVars, localVars,
                 ringVars, taskVars, histVars>>

U2_AllocNext ==
  /\ pc = "u2_alloc"
  /\ next' = NewBuf
  /\ nalloc' = nalloc + 1
  /\ pc' = "u2_push"
  /\ genLog' = genLog \cup {GenCall(i, BlockIdx(i))}
  /\ UNCHANGED <<argVars, genVars, i, written, report, freeLog, buf, current,
                 queue, ringVars, taskVars, subLog, reapLog, negReaped, waits, allFull>>

\* Variant: the loop body frees `current` without waiting for a completion.
U2_PushNext_NoWait ==
  /\ pc = "u2_push"
  /\ Push(Sqe(Tag42, next, FALSE), i, "u2_free")
  /\ UNCHANGED <<argVars, genVars, i, written, report, heapVars, localVars,
                 inflight, cq, nbatch, taskVars, reapLog, negReaped, waits,
                 allFull, genLog>>

U2_PushNext ==
  /\ pc = "u2_push"
  /\ Push(Sqe(Tag42, next, FALSE), i, "u2_submit")
  /\ UNCHANGED <<argVars, genVars, i, written, report, heapVars, localVars,
                 inflight, cq, nbatch, taskVars, reapLog, negReaped, waits,
                 allFull, genLog>>

\* wait(&mut ring)? in the loop (line 264) and after it (line 268)
U2_Submit ==
  /\ pc \in {"u2_submit", "u2_lsubmit"}
  /\ Submit(IF pc = "u2_submit" THEN "u2_reap" ELSE "u2_lreap")
  /\ UNCHANGED <<argVars, genVars, i, written, report, heapVars, localVars, cq,
                 taskVars, subLog, reapLog, negReaped, allFull, genLog>>

U2_Reap ==
  /\ pc \in {"u2_reap", "u2_lreap"}
  /\ Reap(IF pc = "u2_reap" THEN "u2_free" ELSE "u2_lfree")
  /\ UNCHANGED <<argVars, genVars, i, written, report, heapVars, localVars, sq,
                 inflight, nbatch, taskVars, subLog, waits, allFull, genLog>>

\* mem_aligned_free(current, ...); current = next
U2_Free ==
  /\ pc = "u2_free"
  /\ Free(current)
  /\ current' = next
  /\ i' = i + 1
  /\ pc' = "u2_loop"
  /\ UNCHANGED <<argVars, genVars, written, report, nalloc, buf, next, queue,
                 ringVars, taskVars, histVars>>

\* Variant: the last buffer is not freed after the final wait.
U2_LastFree_Leak ==
  /\ pc = "u2_lfree"
  /\ pc' = "report"
  /\ UNCHANGED <<argVars, genVars, i, written, report, heapVars, localVars,
                 ringVars, taskVars, histVars>>

\* mem_aligned_free(current, ...) after the last wait
U2_LastFree ==
  /\ pc = "u2_lfree"
  /\ Free(current)
  /\ pc' = "report"
  /\ UNCHANGED <<argVars, genVars, i, written, report, nalloc, localVars,
                 ringVars, taskVars, histVars>>

\* Variant: the priming loop stops one block early.
PrimeCount_Six == Min(6, count)

\* Variant: the priming loop fills all 8 ring entries.
PrimeCount_Eight == Min(8, count)

\* ------------------------------------------------- Strategy::IOUring8 arm
\* u64::min(7, count): the bound of the priming loop
PrimeCount == Min(7, count)

\* for i in 0..u64::min(7, count); the steady-state loop then starts at 7
U8_PrimeLoop ==
  /\ pc = "u8_prime"
  /\ IF i < PrimeCount
       THEN /\ pc' = "u8_palloc"
            /\ i' = i
       ELSE /\ pc' = "u8_loop"
            /\ i' = SteadyStart
  /\ UNCHANGED <<argVars, genVars, written, report, heapVars, localVars,
                 ringVars, taskVars, histVars>>

\* let buf = make_block_mem_aligned(block_size, i * block_size / 64)?
U8_Alloc ==
  /\ pc \in {"u8_palloc", "u8_alloc"}
  /\ buf' = NewBuf
  /\ nalloc' = nalloc + 1
  /\ pc' = IF pc = "u8_palloc" THEN "u8_ppush" ELSE "u8_push"
  /\ genLog' = genLog \cup {GenCall(i, BlockIdx(i))}
  /\ UNCHANGED <<argVars, genVars, i, written, report, freeLog, current, next,
                 queue, ringVars, taskVars, subLog, reapLog, negReaped, waits, allFull>>

\* Variant: the priming loop forgets queue.push_back(buf).
U8_PrimePush_NoQueue ==
  /\ pc = "u8_ppush"
  /\ Push(Sqe(i, buf, TRUE), i, "u8_prime")
  /\ i' = IF SqFull THEN i ELSE i + 1
  /\ UNCHANGED <<argVars, genVars, written, report, heapVars, localVars,
                 inflight, cq, nbatch, taskVars, reapLog, negReaped, waits,
                 allFull, genLog>>

\* write(&mut ring, i, buf)?; queue.push_back(buf) in the priming loop
U8_PrimePush ==
  /\ pc = "u8_ppush"
  /\ Push(Sqe(i, buf, TRUE), i, "u8_prime")
  /\ queue' = IF SqFull THEN queue ELSE Append(queue, buf)
  /\ i' = IF SqFull THEN i ELSE i + 1
  /\ UNCHANGED <<argVars, genVars, written, report, heapVars, buf, current,
                 next, inflight, cq, nbatch, taskVars, reapLog, negReaped,
                 waits, allFull, genLog>>

\* for i in 7..count
U8_Loop ==
  /\ pc = "u8_loop"
  /\ pc' = IF i < count THEN "u8_alloc" ELSE "u8_drain"
  /\ UNCHANGED <<argVars, genVars, i, written, report, heapVars, localVars,
                 ringVars, taskVars, histVars>>

\* write(&mut ring, i, buf)?; queue.push_back(buf) in the steady-state loop
U8_Push ==
  /\ pc = "u8_push"
  /\ Push(Sqe(i, buf, TRUE), i, "u8_submit")
  /\ queue' = IF SqFull THEN queue ELSE Append(queue, buf)
  /\ UNCHANGED <<argVars, genVars, i, written, report, heapVars, buf, current,
                 next, inflight, cq, nbatch, taskVars, reapLog, negReaped,
                 waits, allFull, genLog>>

\* wait(&mut ring, 1)? in the steady-state loop (line 327) and the drain (line 331)
U8_Submit ==
  /\ pc \in {"u8_submit", "u8_dsubmit"}
  /\ Submit(IF pc = "u8_submit" THEN "u8_reap" ELSE "u8_dreap")
  /\ UNCHANGED <<argVars, genVars, i, written, report, heapVars, localVars, cq,
                 taskVars, subLog, reapLog, negReaped, allFull, genLog>>

\* for _ in 0..want, with want = 1: one completion is taken and printed
U8_Reap ==
  /\ pc \in {"u8_reap", "u8_dreap"}
  /\ Reap(IF pc = "u8_reap" THEN "u8_free" ELSE "u8_dfree")
  /\ UNCHANGED <<argVars, genVars, i, written, report, heapVars, localVars, sq,
                 inflight, nbatch, taskVars, subLog, waits, allFull, genLog>>

\* mem_aligned_free(queue.pop_front().unwrap(), ...)
U8_Free ==
  /\ pc = "u8_free"
  /\ IF queue = <<>>
       THEN /\ pc' = "panic_unwrap"
            /\ UNCHANGED <<i, queue, freeLog>>
       ELSE /\ Free(Head(queue))
            /\ queue' = Tail(queue)
            /\ i' = i + 1
            /\ pc' = "u8_loop"
  /\ UNCHANGED <<argVars, genVars, written, report, nalloc, buf, current, next,
                 ringVars, taskVars, histVars>>

\* while let Some(buf) = queue.pop_front()
U8_Drain ==
  /\ pc = "u8_drain"
  /\ IF queue = <<>>
       THEN /\ pc' = "report"
            /\ UNCHANGED <<buf, queue>>
       ELSE /\ buf' = Head(queue)
            /\ queue' = Tail(queue)
            /\ pc' = "u8_dsubmit"
  /\ UNCHANGED <<argVars, genVars, i, written, report, heapVars, current, next,
                 ringVars, taskVars, histVars>>

\* mem_aligned_free(buf, ...) in the drain
U8_DrainFree ==
  /\ pc = "u8_dfree"
  /\ Free(buf)
  /\ pc' = "u8_drain"
  /\ UNCHANGED <<argVars, genVars, i, written, report, nalloc, localVars,
                 ringVars, taskVars, histVars>>

\* ---------------------------------------------- failures returned with `?`
\* mem_aligned returns Err (null pointer from the allocator): the run ends with
\* the error, whatever is still in flight.
AllocFail ==
  /\ pc \in {"u1_alloc", "u2_alloc0", "u2_alloc", "u8_palloc", "u8_alloc"}
  /\ pc' = "error"
  /\ UNCHANGED <<argVars, genVars, i, written, report, heapVars, localVars,
                 ringVars, taskVars, histVars>>

\* ring.submit_and_wait(1)? returns Err: the system call failed, before or after
\* it consumed the submission queue.
SubmitFail ==
  /\ pc \in {"u1_submit", "u2_submit", "u2_lsubmit", "u8_submit", "u8_dsubmit"}
  /\ \E consumed \in BOOLEAN :
       IF consumed
         THEN SubmitBatch /\ sq' = <<>>
         ELSE UNCHANGED <<sq, inflight, nbatch>>
  /\ waits' = waits + 1
  /\ pc' = "error"
  /\ UNCHANGED <<argVars, genVars, i, written, report, heapVars, localVars, cq,
                 taskVars, subLog, reapLog, negReaped, allFull, genLog>>

\* ----------------------------------------------- Strategy::Sequential arm
\* for i in 0..count
Seq_Loop ==
  /\ pc = "seq_loop"
  /\ pc' = IF i < count THEN "seq_write" ELSE "report"
  /\ UNCHANGED <<argVars, genVars, i, written, report, heapVars, localVars,
                 ringVars, taskVars, histVars>>

\* file.write_all_at(block, 0).await.0?: the whole block is written, or the
\* error is returned. `written` is not touched.
Seq_Write ==
  /\ pc = "seq_write"
  /\ subLog' = Append(subLog, i)
  /\ waits' = waits + 1
  /\ \E ok \in BOOLEAN :
       /\ allFull' = (allFull /\ ok)
       /\ pc' = IF ok THEN "seq_loop" ELSE "error"
       /\ i' = IF ok THEN i + 1 ELSE i
  /\ genLog' = genLog \cup {GenCall(i, BlockIdx(i))}
  /\ UNCHANGED <<argVars, genVars, written, report, heapVars, localVars,
                 ringVars, taskVars, reapLog, negReaped>>

\* ------------------------------------------------------- spawned tasks
\* monoio::spawn(async move { make_block(..); file.write_at(block, 0).await.0 })
\* Task t is tasks[t + 1]; res is the io::Result<usize> of write_at, an error
\* being a negative number.
Spawned == [st |-> "spawned", res |-> 0]

\* Positions at which the main future is suspended on a join handle: the
\* executor polls spawned tasks only then.
AwaitPcs == {"as_await", "a2_await", "a2_lawait"}

\* First poll of task t: it builds its block and issues write_at.
TaskStart ==
  /\ pc \in AwaitPcs
  /\ \E t \in 0..(Len(tasks) - 1) :
       /\ tasks[t + 1].st = "spawned"
       /\ tasks' = [tasks EXCEPT ![t + 1].st = "inflight"]
       /\ subLog' = Append(subLog, t)
       /\ genLog' = genLog \cup
            {GenCall(t, IF strategy = "async2" /\ t = 0 THEN 0 ELSE BlockIdx(t))}
  /\ UNCHANGED <<argVars, genVars, pc, i, written, report, heapVars, localVars,
                 ringVars, handles, reapLog, negReaped, waits, allFull>>

\* The write of task t completes and the task returns its result.
TaskFinish ==
  /\ pc \in AwaitPcs
  /\ \E t \in 0..(Len(tasks) - 1) : \E r \in {0 - 5, block_size \div 2, block_size} :
       /\ tasks[t + 1].st = "inflight"
       /\ tasks' = [tasks EXCEPT ![t + 1] = [st |-> "done", res |-> r]]
       /\ allFull' = (allFull /\ r = block_size)
  /\ UNCHANGED <<argVars, genVars, pc, i, written, report, heapVars, localVars,
                 ringVars, handles, subLog, reapLog, negReaped, waits, genLog>>

\* Variant: the joined task's byte count is not added to written.
Join_NoAdd(t, okPc) ==
  /\ tasks[t + 1].st = "done"
  /\ tasks' = [tasks EXCEPT ![t + 1].st = "joined"]
  /\ pc' = IF tasks[t + 1].res < 0 THEN "error" ELSE okPc
  /\ written' = written

\* handle.await? on task t: returns once the task is done; an Err ends the run,
\* an Ok(n) is added to written.
Join(t, okPc) ==
  /\ tasks[t + 1].st = "done"
  /\ tasks' = [tasks EXCEPT ![t + 1].st = "joined"]
  /\ IF tasks[t + 1].res < 0
       THEN /\ pc' = "error"
            /\ written' = written
       ELSE /\ pc' = okPc
            /\ written' = written + tasks[t + 1].res

\* ---------------------------------------------------- Strategy::Async arm
\* for i in 0..count { handles.push(monoio::spawn(..)) }, then for handle in handles
As_SpawnLoop ==
  /\ pc = "as_spawn"
  /\ IF i < count
       THEN /\ handles' = Append(handles, i)
            /\ tasks' = Append(tasks, Spawned)
            /\ i' = i + 1
            /\ pc' = "as_spawn"
       ELSE /\ i' = 0
            /\ pc' = "as_join"
            /\ UNCHANGED <<handles, tasks>>
  /\ UNCHANGED <<argVars, genVars, written, report, heapVars, localVars,
                 ringVars, histVars>>

\* for handle in handles (i is the position in handles)
As_JoinLoop ==
  /\ pc = "as_join"
  /\ pc' = IF i < Len(handles) THEN "as_await" ELSE "report"
  /\ waits' = IF i < Len(handles) THEN waits + 1 ELSE waits
  /\ UNCHANGED <<argVars, genVars, i, written, report, heapVars, localVars,
                 ringVars, taskVars, subLog, reapLog, negReaped, allFull,
                 genLog>>

\* written += handle.await?
As_Await ==
  /\ pc = "as_await"
  /\ Join(handles[i + 1], "as_join")
  /\ i' = i + 1
  /\ UNCHANGED <<argVars, genVars, report, heapVars, localVars, ringVars,
                 handles, histVars>>

\* --------------------------------------------------- Strategy::Async2 arm
\* if count > 0 { let mut current = monoio::spawn(block 0); for i in 1..count
A2_Start ==
  /\ pc = "a2_start"
  /\ IF count > 0
       THEN /\ current' = 0
            /\ tasks' = Append(tasks, Spawned)
            /\ i' = 1
            /\ pc' = "a2_loop"
       ELSE /\ pc' = "report"
            /\ UNCHANGED <<current, tasks, i>>
  /\ UNCHANGED <<argVars, genVars, written, report, heapVars, buf, next, queue,
                 ringVars, handles, histVars>>

\* Variant: the loop spawns the next task without awaiting the current one.
A2_Loop_SpawnAhead ==
  /\ pc = "a2_loop"
  /\ IF i < count
       THEN /\ next' = i
            /\ tasks' = Append(tasks, Spawned)
            /\ i' = i + 1
            /\ pc' = "a2_loop"
       ELSE /\ pc' = "a2_lawait"
            /\ UNCHANGED <<next, tasks, i>>
  /\ waits' = waits + 1
  /\ UNCHANGED <<argVars, genVars, written, report, heapVars, buf, current,
                 queue, ringVars, handles, subLog, reapLog, negReaped, allFull,
                 genLog>>

\* for i in 1..count { let next = monoio::spawn(block i); ...
A2_Loop ==
  /\ pc = "a2_loop"
  /\ IF i < count
       THEN /\ next' = i
            /\ tasks' = Append(tasks, Spawned)
            /\ pc' = "a2_await"
       ELSE /\ pc' = "a2_lawait"
            /\ UNCHANGED <<next, tasks>>
  /\ waits' = waits + 1
  /\ UNCHANGED <<argVars, genVars, i, written, report, heapVars, buf, current,
                 queue, ringVars, handles, subLog, reapLog, negReaped, allFull,
                 genLog>>

\* written += current.await?; current = next
A2_Await ==
  /\ pc = "a2_await"
  /\ Join(current, "a2_loop")
  /\ current' = next
  /\ i' = i + 1
  /\ UNCHANGED <<argVars, genVars, report, heapVars, buf, next, queue,
                 ringVars, handles, histVars>>

\* written += current.await? after the loop
A2_LastAwait ==
  /\ pc = "a2_lawait"
  /\ Join(current, "report")
  /\ UNCHANGED <<argVars, genVars, i, report, heapVars, localVars, ringVars,
                 handles, histVars>>

\* ------------------------------------------------------------- the report
\* println!("writen {}/{} bytes ...", written, block_size * count, ...)
Report ==
  /\ pc = "report"
  /\ report' = <<[written |-> written, total |-> block_size * count]>>
  /\ pc' = "done"
  /\ UNCHANGED <<argVars, genVars, i, written, heapVars, localVars, ringVars,
                 taskVars, histVars>>

\* match strategy
Entry(s) ==
  CASE s = "seq" -> "seq_loop"
    [] s = "async" -> "as_spawn"
    [] s = "async2" -> "a2_start"
    [] s = "io_uring" -> "u1_loop"
    [] s = "io_uring2" -> "u2_start"
    [] s = "io_uring8" -> "u8_prime"

\* The state on entry to `match strategy`: written = 0, a fresh ring, no buffer.
Init ==
  /\ strategy \in Strategies
  /\ block_size \in BlockSizes
  /\ count \in 0..(IF strategy \in TaskStrategies THEN MaxTasks ELSE MaxCount)
  /\ pc = Entry(strategy)
  /\ i = 0
  /\ written = 0
  /\ report = <<>>
  /\ nalloc = 0
  /\ freeLog = <<>>
  /\ buf = Null
  /\ current = Null
  /\ next = Null
  /\ queue = <<>>
  /\ sq = <<>>
  /\ inflight = {}
  /\ cq = <<>>
  /\ nbatch = 0
  /\ handles = <<>>
  /\ tasks = <<>>
  /\ subLog = <<>>
  /\ reapLog = <<>>
  /\ negReaped = FALSE
  /\ waits = 0
  /\ allFull = TRUE
  /\ genLog = {}
  /\ genCall = <<>>
  /\ outA = <<>>
  /\ outB = <<>>

\* ------------------------------------------------------- generator replay
\* The buffer call g of the generator produces when the allocator hands out
\* memory holding `old` (make_block allocates zeroed memory itself).
Generated(g, old) ==
  IF g.aligned
    THEN make_block_mem_aligned(block_size, g.idx, old)
    ELSE make_block(block_size, g.idx)

\* The generator call the run makes for some block n < count, made once ...
GenFirst ==
  /\ Len(genCall) = 0
  /\ \E n \in 0..(count - 1) : \E old \in OldMemory(block_size) :
       /\ genCall' = <<GenCall(n, BlockIdx(n))>>
       /\ outA' = <<Generated(GenCall(n, BlockIdx(n)), old)>>
  /\ UNCHANGED <<argVars, outB, pc, i, written, report, heapVars, localVars,
                 ringVars, taskVars, histVars>>

\* ... and made a second time with the same (block_size, idx).
GenSecond ==
  /\ Len(genCall) = 1
  /\ Len(outB) = 0
  /\ \E old \in OldMemory(block_size) :
       outB' = <<Generated(genCall[1], old)>>
  /\ UNCHANGED <<argVars, genCall, outA, pc, i, written, report, heapVars,
                 localVars, ringVars, taskVars, histVars>>

\* ------------------------------------- ring runs in which no call fails
\* The steps of the program in the three ring arms, mem_aligned and
\* submit_and_wait never returning Err.
RingProgram ==
  \/ U1_Loop \/ U1_Alloc \/ U1_Push \/ U1_Submit \/ U1_Reap \/ U1_Free
  \/ U2_Start \/ U2_AllocCurrent \/ U2_PushCurrent \/ U2_Loop \/ U2_AllocNext
  \/ U2_PushNext \/ U2_Submit \/ U2_Reap \/ U2_Free \/ U2_LastFree
  \/ U8_PrimeLoop \/ U8_Alloc \/ U8_PrimePush \/ U8_Loop \/ U8_Push
  \/ U8_Submit \/ U8_Reap \/ U8_Free \/ U8_Drain \/ U8_DrainFree
  \/ Report

RingNext == RingProgram \/ KernelComplete

RingInit == Init /\ strategy \in RingStrategies

\* The thread keeps running while it has a step to take (it is blocked only in
\* submit_and_wait with no completion posted), and the kernel eventually retires
\* every write it was handed.
FairSpec ==
  RingInit /\ [][RingNext]_vars /\ WF_vars(RingProgram) /\ WF_vars(KernelComplete)

GenNext == GenFirst \/ GenSecond

\* Two calls of the block generator with the arguments of one call of the run.
GenSpec == Init /\ [][GenNext]_vars

Next ==
  \/ KernelComplete
  \/ U1_Loop \/ U1_Alloc \/ U1_Push \/ U1_Submit \/ U1_Reap \/ U1_Free
  \/ U2_Start \/ U2_AllocCurrent \/ U2_PushCurrent \/ U2_Loop \/ U2_AllocNext
  \/ U2_PushNext \/ U2_Submit \/ U2_Reap \/ U2_Free \/ U2_LastFree
  \/ U8_PrimeLoop \/ U8_Alloc \/ U8_PrimePush \/ U8_Loop \/ U8_Push
  \/ U8_Submit \/ U8_Reap \/ U8_Free \/ U8_Drain \/ U8_DrainFree
  \/ AllocFail \/ SubmitFail
  \/ Seq_Loop \/ Seq_Write
  \/ TaskStart \/ TaskFinish
  \/ As_SpawnLoop \/ As_JoinLoop \/ As_Await
  \/ A2_Start \/ A2_Loop \/ A2_Await \/ A2_LastAwait
  \/ Report

Spec == Init /\ [][Next]_vars

\* ================================================================ claims
\* Writes pushed to the ring and whose completion has not been reaped yet.
Pushed == Len(subLog)
Reaped == Len(reapLog)
Outstanding == Pushed - Reaped

\* The tag and buffer of every write pushed and not yet reaped.
OutstandingWrites ==
  {[user_data |-> sq[k].user_data, buf |-> sq[k].buf] : k \in 1..Len(sq)}
  \cup {[user_data |-> e.user_data, buf |-> e.buf] : e \in inflight}
  \cup {[user_data |-> cq[k].user_data, buf |-> cq[k].buf] : k \in 1..Len(cq)}

\* Window depth the strategy table gives each ring strategy.
WindowDepth(s) ==
  CASE s = "io_uring" -> 1
    [] s = "io_uring2" -> 2
    [] s = "io_uring8" -> 8

Aborted == pc \in {"error", "panic_full", "panic_assert", "panic_unwrap"}

PushPcs == {"u1_push", "u2_push0", "u2_push", "u8_ppush", "u8_push"}

\* C1: in io_uring2 and io_uring8 every buffer passed to mem_aligned_free is the
\* buffer of a write whose completion has already been reaped.
C1_FreedOnlyAfterReaped ==
  strategy \in {"io_uring2", "io_uring8"} =>
    \A k \in 1..Len(freeLog) : freeLog[k] \in Range(reapLog)

\* C2: in every ring strategy the number of writes pushed and not yet reaped is
\* between 0 and the strategy's window depth.
C2_WindowBound ==
  strategy \in RingStrategies =>
    /\ Outstanding >= 0
    /\ Outstanding <= WindowDepth(strategy)
    /\ Outstanding = Cardinality(OutstandingWrites)

\* C2 witness: io_uring8 with its window of 8 full.
C2_Witness == strategy = "io_uring8" /\ Outstanding = 8 /\ Cardinality(inflight) = 8

\* C3: a push is never attempted with 8 entries already held by the ring (neither
\* 8 unsubmitted entries nor 8 unreaped writes), and the expect never fires.
C3_NoPushOnFullRing ==
  /\ pc # "panic_full"
  /\ pc \in PushPcs => (Len(sq) < RingEntries /\ Outstanding < RingEntries)

\* C3 witness: io_uring8 about to push its 8th entry onto a queue holding 7.
C3_Witness == pc = "u8_push" /\ Len(sq) = 7 /\ Outstanding = 7

\* C4: no buffer is ever released twice, and when a ring run reaches the report
\* every buffer it allocated has been released.
C4_ReleasedExactlyOnce ==
  strategy \in RingStrategies =>
    /\ Cardinality(Range(freeLog)) = Len(freeLog)
    /\ Range(freeLog) \subseteq 0..(nalloc - 1)
    /\ pc = "done" => (Range(freeLog) = 0..(nalloc - 1) /\ nalloc = count)

\* C4 witness: an io_uring8 run of 9 blocks ended with all 9 buffers released.
C4_Witness ==
  strategy = "io_uring8" /\ pc = "done" /\ nalloc = 9 /\ Len(freeLog) = 9

\* C5: in every ring strategy two distinct outstanding writes never carry the
\* same user_data.
C5_OutstandingTagsDistinct ==
  strategy \in RingStrategies =>
    \A a, b \in OutstandingWrites : a.buf # b.buf => a.user_data # b.user_data

\* C6: for every strategy, a run that reaches the report and in which every
\* write wrote block_size bytes reports written = block_size * count.
C6_ReportsAllBytes ==
  (pc = "done" /\ allFull) => report[1].written = block_size * count

\* C7: under io_uring and io_uring2, from the moment a completion with a
\* negative result is reaped the run is aborted by the assertion: nothing more is
\* pushed and no report is produced.
C7_NegativeAborts ==
  [][(strategy \in {"io_uring", "io_uring2"} /\ negReaped') =>
       /\ pc' = "panic_assert"
       /\ report' = <<>>
       /\ negReaped => (subLog' = subLog /\ sq' = sq /\ freeLog' = freeLog)]_vars

\* C7 witness: io_uring2 aborted on a negative completion with blocks still
\* to submit and a write still held by the kernel.
C7_Witness ==
  /\ strategy = "io_uring2"
  /\ negReaped
  /\ pc = "panic_assert"
  /\ Pushed < count
  /\ inflight # {}

\* C8: under io_uring8 no completion result aborts the run (the run never
\* panics, and it can always take a further step until it is done or a call
\* returned an error); when it reaches the report all count blocks were pushed,
\* exactly count completions were reaped and every buffer was released.
C8_NegativeOnlyLogged ==
  strategy = "io_uring8" =>
    /\ pc \notin {"panic_full", "panic_assert", "panic_unwrap"}
    /\ pc \notin {"done", "error"} => ENABLED Next
    /\ pc = "done" =>
         /\ Pushed = count
         /\ Reaped = count
         /\ Range(freeLog) = 0..(count - 1)
         /\ Len(report) = 1

\* C8 witness: an io_uring8 run of 9 blocks that reaped a negative result and
\* still produced its report.
C8_Witness ==
  strategy = "io_uring8" /\ count = 9 /\ negReaped /\ pc = "done" /\ Len(report) = 1

\* C9: with count = 0 no write is submitted, no buffer allocated, no task
\* spawned, no completion waited for; the run never fails, can always proceed to
\* its end, and reports 0 bytes.
C9_ZeroCount ==
  count = 0 =>
    /\ subLog = <<>> /\ sq = <<>> /\ inflight = {} /\ tasks = <<>>
    /\ nalloc = 0
    /\ waits = 0
    /\ ~Aborted
    /\ pc # "done" => ENABLED Next
    /\ pc = "done" => report = <<[written |-> 0, total |-> 0]>>

\* C9 witness: an io_uring2 run with count = 0 that has produced its report.
C9_Witness == count = 0 /\ strategy = "io_uring2" /\ pc = "done" /\ Len(report) = 1

\* C10: in every ring strategy the blocks are pushed in the order 0, 1, 2, ...,
\* each once, never beyond count - 1; a run that reaches the report has pushed
\* all count blocks and reaped exactly count completions.
C10_SubmissionOrder ==
  strategy \in RingStrategies =>
    /\ Len(subLog) <= count
    /\ \A k \in 1..Len(subLog) : subLog[k] = k - 1
    /\ pc = "done" => (Len(subLog) = count /\ Len(reapLog) = count)

\* C10 witness: io_uring2 with count = 3 ended after pushing [0, 1, 2] and
\* reaping 3 completions.
C10_Witness ==
  /\ strategy = "io_uring2" /\ count = 3 /\ pc = "done"
  /\ subLog = <<0, 1, 2>> /\ Len(reapLog) = 3

\* Sum of the results of the tasks of a task sequence.
RECURSIVE SumRes(_)
SumRes(ts) == IF ts = <<>> THEN 0 ELSE ts[1].res + SumRes(Tail(ts))

\* Positions from the elapsed-time measurement on.
Measured == pc \in {"report", "done"}

\* C11: in async and async2, under every interleaving of the tasks, when the
\* elapsed time is measured all count tasks have been spawned and joined, and
\* written (the value then reported) is the sum of their results.
C11_AllTasksJoined ==
  (strategy \in TaskStrategies /\ Measured) =>
    /\ Len(tasks) = count
    /\ \A t \in 1..Len(tasks) : tasks[t].st = "joined"
    /\ written = SumRes(tasks)
    /\ pc = "done" => report[1].written = SumRes(tasks)

\* C11 witness: an async run of 3 tasks, one of them a short write, reported.
C11_Witness ==
  /\ strategy = "async" /\ count = 3 /\ pc = "done"
  /\ \E t \in 1..3 : tasks[t].res = block_size \div 2
  /\ \E t \in 1..3 : tasks[t].res = block_size

\* The tag io_uring8 pushed buffer b with: the k-th buffer allocated is the k-th
\* entry pushed, and its tag is the block index of that push.
TagOfBuf(b) == subLog[b + 1]

\* The buffer io_uring8 releases after the wait in progress: the queue head in
\* the steady-state loop, the buffer already popped in the drain.
HeadBuf == IF pc = "u8_reap" THEN Head(queue) ELSE buf

\* C12: under io_uring8 every completion the scheduler reaps carries the tag of
\* the oldest unreleased buffer (the one released next) and is the completion
\* of that buffer's write.
C12_ReapMatchesHead ==
  [][(strategy = "io_uring8" /\ pc \in {"u8_reap", "u8_dreap"} /\ pc' # pc) =>
       /\ Head(cq).user_data = TagOfBuf(HeadBuf)
       /\ Head(cq).buf = HeadBuf]_vars

\* C13: in every ring strategy, when the elapsed time is measured and the result
\* line printed no write is outstanding: all count writes were pushed and their
\* completions reaped, the ring is empty, io_uring8's queue is empty and every
\* buffer (io_uring2's current included) has been released.
C13_DrainedAtReport ==
  (strategy \in RingStrategies /\ Measured) =>
    /\ Pushed = count
    /\ Outstanding = 0
    /\ sq = <<>> /\ inflight = {} /\ cq = <<>>
    /\ queue = <<>>
    /\ Len(freeLog) = nalloc
    /\ (strategy = "io_uring2" /\ count > 0) => current \in Range(freeLog)

\* C13 witness: io_uring8 at the elapsed-time measurement after 9 blocks.
C13_Witness ==
  strategy = "io_uring8" /\ pc = "report" /\ count = 9 /\ Reaped = 9 /\ nbatch = 2

\* C14: in every ring strategy the window is primed before any wait: until the
\* first submit_and_wait no completion is reaped, no buffer released and at most
\* min(W, count) blocks pushed, and the first submit_and_wait is called with
\* exactly min(W, count) blocks pushed.
C14_PrimedBeforeFirstWait ==
  strategy \in RingStrategies =>
    /\ waits = 0 =>
         /\ Pushed <= Min(WindowDepth(strategy), count)
         /\ Reaped = 0
         /\ freeLog = <<>>
    /\ waits >= 1 => Pushed >= Min(WindowDepth(strategy), count)
    /\ (waits = 1 /\ Reaped = 0) =>
         (Pushed = Min(WindowDepth(strategy), count) /\ freeLog = <<>>)

\* C14 witness: io_uring8 with count = 9 blocked in its first wait with 8 blocks
\* pushed and nothing released.
C14_Witness ==
  /\ strategy = "io_uring8" /\ count = 9 /\ pc = "u8_reap"
  /\ waits = 1 /\ Pushed = 8 /\ freeLog = <<>>

\* Tasks spawned and not yet joined.
Unjoined == {t \in 1..Len(tasks) : tasks[t].st # "joined"}

\* C15: under async2 at most 2 tasks are spawned and not yet joined, and a task
\* exists only if the task two before it has been joined.
C15_DoubleBuffered ==
  strategy = "async2" =>
    /\ Cardinality(Unjoined) <= 2
    /\ \A t \in 3..Len(tasks) : tasks[t - 2].st = "joined"

\* C15 witness: async2 with count = 3, task 0 joined, tasks 1 and 2 both
\* spawned and not yet joined.
C15_Witness ==
  /\ strategy = "async2" /\ count = 3 /\ Len(tasks) = 3
  /\ tasks[1].st = "joined"
  /\ Unjoined = {2, 3}

\* The u64 whose little-endian bytes are bs (u64::from_le_bytes).
RECURSIVE FromLe(_)
FromLe(bs) == IF bs = <<>> THEN 0 ELSE bs[1] + 256 * FromLe(Tail(bs))

\* The stamp read back from chunk j of buffer b: its first 8 bytes.
ChunkStamp(b, j) == FromLe([k \in 1..8 |-> b[64 * j + k - 1]])

ChunksPerBlock == block_size \div 64

\* The stamp at chunk position p of the run (chunk p % ChunksPerBlock of block
\* p / ChunksPerBlock), read from the buffer the run's call for that block
\* generates over memory that held `old`.
StampAt(p, old) ==
  LET g == CHOOSE c \in genLog : c.blk = p \div ChunksPerBlock
  IN ChunkStamp(Generated(g, old), p % ChunksPerBlock)

\* C16: every generator call for block i is made with idx = i * (block_size / 64);
\* over a whole run of count blocks, whichever generator the strategy uses and
\* whatever the memory held before, chunk j of block i carries the stamp
\* i * (block_size / 64) + j, which is the chunk's absolute byte position divided
\* by 64, and the stamps are strictly increasing in (i, j) order, hence pairwise
\* distinct.
C16_ChunkStamps ==
  /\ \A g \in genLog : g.idx = g.blk * ChunksPerBlock
  /\ Measured =>
       /\ {g.blk : g \in genLog} = 0..(count - 1)
       /\ Cardinality(genLog) = count
       /\ \A g \in genLog : \A old \in OldMemory(block_size) :
            \A j \in 0..(ChunksPerBlock - 1) :
              LET stamp == ChunkStamp(Generated(g, old), j) IN
                /\ stamp = g.blk * ChunksPerBlock + j
                /\ stamp = (g.blk * block_size + 64 * j) \div 64
       /\ \A p \in 0..(count * ChunksPerBlock - 2) : \A old \in OldMemory(block_size) :
            StampAt(p, old) < StampAt(p + 1, old)

\* C16 witness: an io_uring8 run of 9 blocks of 128 bytes at its end; the second
\* chunk of the last block carries stamp 17.
C16_Witness ==
  /\ strategy = "io_uring8" /\ block_size = 128 /\ count = 9 /\ pc = "done"
  /\ \E g \in genLog : g.blk = 8 /\ g.aligned
       /\ \A old \in OldMemory(block_size) : ChunkStamp(Generated(g, old), 1) = 17

\* C17: two calls of the block generator with the same (block_size, idx) produce
\* buffers with the same byte at every one of the block_size offsets.
C17_Deterministic ==
  (Len(outA) = 1 /\ Len(outB) = 1) =>
    \A o \in 0..(block_size - 1) : outA[1][o] = outB[1][o]

\* Positions at which the thread is blocked in submit_and_wait until a
\* completion is posted.
ReapPcs == {"u1_reap", "u2_reap", "u2_lreap", "u8_reap", "u8_dreap"}

Terminated ==
  /\ pc \notin ReapPcs
  /\ \/ pc = "done" /\ queue = <<>> /\ Outstanding = 0 /\ Len(report) = 1
     \/ pc = "panic_assert" /\ negReaped /\ strategy \in {"io_uring", "io_uring2"}

SubmitPcs == {"u1_submit", "u2_submit", "u2_lsubmit", "u8_submit", "u8_dsubmit"}

\* Positions between two scheduler steps of io_uring8: the heads of its three
\* loops and the end of the arm.
U8_StepPcs == {"u8_prime", "u8_loop", "u8_drain", "report", "done"}

\* C19: under io_uring8, between scheduler steps the queue holds as many buffers
\* as writes are pushed and not reaped (inside a step it is one ahead after the
\* reap and one behind after the drain's pop); under io_uring2, between loop
\* iterations exactly one write, for the unreleased `current`, is outstanding;
\* in both, submit_and_wait is only called with at least one write pushed and
\* not reaped.
C19_QueueTracksOutstanding ==
  /\ strategy = "io_uring8" =>
       /\ pc \in U8_StepPcs => Len(queue) = Outstanding
       /\ pc = "u8_free" => Len(queue) = Outstanding + 1
       /\ pc \in {"u8_dsubmit", "u8_dreap"} => Len(queue) = Outstanding - 1
  /\ strategy = "io_uring2" =>
       /\ pc = "u2_loop" => (Outstanding = 1 /\ current \notin Range(freeLog))
       /\ Measured => Outstanding = 0
  /\ (strategy \in {"io_uring2", "io_uring8"} /\ pc \in SubmitPcs) => Outstanding >= 1

\* C19 witness: io_uring8 in its steady state, between two steps, with 7
\* buffers queued for 7 unreaped writes after 2 completions were reaped.
C19_Witness ==
  /\ strategy = "io_uring8" /\ pc = "u8_loop"
  /\ Reaped = 2 /\ Len(queue) = 7 /\ Outstanding = 7

====
